---- MODULE Spec2Model ----
(***************************************************************************)
(* A model of the mp3-decoder binary decoding engine: the MPEG audio frame *)
(* header decoder (src/audio/header.rs), the audio frame constructor       *)
(* (src/audio/frame.rs), the audio frame walker (src/audio/mod.rs) and the *)
(* ID3v2 tag decoder (src/metadata/header.rs).                             *)
(*                                                                         *)
(* Three specifications share the module, one per entry point:             *)
(*   SpecHeader  MP3AudioFrameHeader::from_bytes on one 4-byte input       *)
(*   SpecWalk    parse_audio_frames on one byte buffer                     *)
(*   SpecTag     ID3v2Header::from_bytes on one byte buffer                *)
(* Each draws its input in Init and leaves the other entry points idle.    *)
(***************************************************************************)
EXTENDS Integers, Sequences, FiniteSets, TLC

VARIABLES
    \* MP3AudioFrameHeader::from_bytes
    hbytes,          \* the argument bytes: &[u8; 4]
    hpc,             \* "idle" | "call" | "done"
    hres,            \* what the call produced
    \* parse_audio_frames
    buf,             \* the argument bytes: &[u8]
    current_index,   \* the local current_index
    frames,          \* the local frames: Vec<MP3AudioFrame>
    wpc,             \* "idle" | "loop" | "done" | "panic"
    wres,            \* what the call produced
    \* ID3v2Header::from_bytes
    tbuf,            \* the argument bytes: &[u8]
    tpc,             \* "idle" | "call" | "frames" | "done" | "panic"
    metadata_size,   \* the local metadata_size
    size,            \* the local size
    version,         \* the local version
    flags,           \* the local flags
    t_index,         \* build_metadata_frames' local current_index
    metadata_frames, \* build_metadata_frames' local frames
    tres             \* what the call produced

hvars == <<hbytes, hpc, hres>>
wvars == <<buf, current_index, frames, wpc, wres>>
tvars == <<tbuf, tpc, metadata_size, size, version, flags, t_index,
           metadata_frames, tres>>
vars == <<hvars, wvars, tvars>>

----------------------------------------------------------------------------
(* Results: Result<T, Error> and a panic that unwinds out of the call.     *)
(* Every std::io::Error of the program has kind InvalidData and differs    *)
(* only in where it is built; the value of an Err names that place.        *)

Ok(v) == [kind |-> "Ok", val |-> v]
Err(e) == [kind |-> "Err", val |-> e]
Panic(why) == [kind |-> "Panic", val |-> why]
Pending == [kind |-> "Pending", val |-> "none"]

None == [some |-> FALSE, v |-> 0]
Some(x) == [some |-> TRUE, v |-> x]

----------------------------------------------------------------------------
(* Fixed-width unsigned arithmetic.  The integers of TLC are 32-bit and     *)
(* signed, so a u32 read from four bytes is kept as its two 16-bit halves  *)
(* <<high, low>>; every other u32 of the program stays below 2^31 (the     *)
(* largest are 255 << 21 and 1152 * 14 + 1) and is a plain integer.        *)

RECURSIVE Pow2(_)
Pow2(n) == IF n = 0 THEN 1 ELSE 2 * Pow2(n - 1)

\* x >> n of a u32 kept as halves, for n >= 1
Shr(x, n) ==
    IF n >= 16 THEN x[1] \div Pow2(n - 16)
    ELSE x[1] * Pow2(16 - n) + x[2] \div Pow2(n)

\* x << n of a u8 widened to u32, for n <= 21: no bit is lost
Shl(x, n) == x * Pow2(n)

\* whether a u32 kept as halves is below 2^31, and its value when it is
U32Fits(x) == x[1] < Pow2(15)
U32Int(x) == x[1] * Pow2(16) + x[2]

RECURSIVE BitAnd(_, _)
BitAnd(x, y) ==
    IF x = 0 \/ y = 0 THEN 0
    ELSE (IF x % 2 = 1 /\ y % 2 = 1 THEN 1 ELSE 0)
         + 2 * BitAnd(x \div 2, y \div 2)

RECURSIVE BitOr(_, _)
BitOr(x, y) ==
    IF x = 0 THEN y
    ELSE IF y = 0 THEN x
    ELSE (IF x % 2 = 1 \/ y % 2 = 1 THEN 1 ELSE 0)
         + 2 * BitOr(x \div 2, y \div 2)

u32_from_be_bytes(b) == <<b[1] * Pow2(8) + b[2], b[3] * Pow2(8) + b[4]>>

u16_from_be_bytes(b) == b[1] * Pow2(8) + b[2]

----------------------------------------------------------------------------
(* Byte buffers.  A &[u8] is kept as its length and its non-zero bytes by  *)
(* position (from 0); a sub-slice is a start and an end in the buffer.     *)

ByteAt(b, i) == IF i \in DOMAIN b.at THEN b.at[i] ELSE 0

\* the n bytes from position off on, as a sequence
Bytes(b, off, n) == [i \in 1..n |-> ByteAt(b, off + i - 1)]

\* the buffer that holds the bytes of the sequence s
FromSeq(s) ==
    [len |-> Len(s),
     at |-> [i \in {j \in 0..(Len(s) - 1) : s[j + 1] # 0} |-> s[i + 1]]]

EmptyBuffer == [len |-> 0, at |-> <<>>]

----------------------------------------------------------------------------
(* src/audio/header.rs                                                     *)

MPEGVersion_from_bits(bits) ==
    CASE bits = 0 -> Ok("Mpeg2_5")
      [] bits = 2 -> Ok("Mpeg2")
      [] bits = 3 -> Ok("Mpeg1")
      [] OTHER -> Err("InvalidVersion")

BitrateTable(self, layer) ==
    CASE self = "Mpeg1" /\ layer = "Layer1" ->
            <<32, 64, 36, 128, 160, 192, 224, 256, 288, 320, 352, 384, 416, 448>>
      [] self = "Mpeg1" /\ layer = "Layer2" ->
            <<32, 48, 56, 64, 80, 96, 112, 128, 160, 192, 224, 256, 320, 384>>
      [] self = "Mpeg1" /\ layer = "Layer3" ->
            <<32, 40, 48, 56, 64, 80, 96, 112, 128, 160, 192, 224, 256, 320>>
      [] self # "Mpeg1" /\ layer = "Layer1" ->
            <<32, 48, 56, 64, 80, 96, 112, 128, 144, 160, 176, 192, 224, 256>>
      [] OTHER ->
            <<8, 16, 24, 32, 40, 48, 56, 64, 80, 96, 112, 128, 144, 160>>

get_bitrate_kbps(self, layer, index) ==
    LET table == BitrateTable(self, layer)
    IN  CASE index = 0 -> Ok(None)
          [] index \in 1..14 -> Ok(Some(table[(index - 1) + 1]))
          [] index = 15 -> Ok(None)
          [] OTHER -> Err("InvalidBitrateIndex")

get_bitrate(self, layer, index) ==
    LET table == BitrateTable(self, layer)
    IN  CASE index = 0 -> Ok(None)
          [] index \in 1..14 -> Ok(Some(table[(index - 1) + 1] * 1000))
          [] index = 15 -> Ok(None)
          [] OTHER -> Err("InvalidBitrateIndex")

SamplingRateTable(self) ==
    CASE self = "Mpeg1" -> <<44100, 48000, 32000>>
      [] self = "Mpeg2" -> <<22050, 24000, 16000>>
      [] self = "Mpeg2_5" -> <<11025, 12000, 8000>>

get_sampling_rate(self, index) ==
    LET table == SamplingRateTable(self)
    IN  IF index \in 0..2 THEN Ok(table[index + 1])
        ELSE Err("InvalidSampleRateIndex")

Layer_from_bits(bits) ==
    CASE bits = 1 -> Ok("Layer3")
      [] bits = 2 -> Ok("Layer2")
      [] bits = 3 -> Ok("Layer1")
      [] OTHER -> Err("InvalidLayer")

get_samples_per_frame(self) == IF self = "Layer1" THEN 384 ELSE 1152

ChannelMode_from_bits(bits) ==
    CASE bits = 0 -> Ok("Stereo")
      [] bits = 1 -> Ok("JointStereo")
      [] bits = 2 -> Ok("DualChannel")
      [] bits = 3 -> Ok("SingleChannel")
      [] OTHER -> Err("InvalidChannelMode")

ModeExtension_from_bits(bits) ==
    CASE bits = 0 -> Ok("Mode1")
      [] bits = 1 -> Ok("Mode2")
      [] bits = 2 -> Ok("Mode3")
      [] bits = 3 -> Ok("Mode4")
      [] OTHER -> Err("InvalidModeExtension")

\* let sync_word_valid = 0x7FF;
sync_word_valid == 2047

\* the test of the sync word (TRUE when from_bytes returns its first error),
\* and the same test against the 12-bit 0xFFF the error message speaks of
sync_word_rejected_12bit(sync_word_bits) ==
    BitAnd(sync_word_bits, 4095) # 4095

sync_word_rejected(sync_word_bits) ==
    BitAnd(sync_word_bits, sync_word_valid) # sync_word_valid

\* MP3AudioFrameHeader::from_bytes.  bit_position runs 32, 21, 19, 17, 16,
\* 12, 10, 9, 8 (the private bit, skipped), 6, 4, 3, 2.
MP3AudioFrameHeader_from_bytes(bytes) ==
    LET data == u32_from_be_bytes(bytes)
        sync_word_bits == Shr(data, 32 - 11)
        mpeg_version_r == MPEGVersion_from_bits(BitAnd(Shr(data, 19), 3))
        mpeg_version == mpeg_version_r.val
        layer_r == Layer_from_bits(BitAnd(Shr(data, 17), 3))
        layer == layer_r.val
        has_crc == BitAnd(Shr(data, 16), 1) = 0
        bitrate_index == BitAnd(Shr(data, 12), 15)
        bitrate_from_index == get_bitrate(mpeg_version, layer, bitrate_index)
        sampling_rate_index == BitAnd(Shr(data, 10), 3)
        sample_rate_r == get_sampling_rate(mpeg_version, sampling_rate_index)
        sample_rate == sample_rate_r.val
        padding == BitAnd(Shr(data, 9), 1)
        has_padding == padding = 1
        channel_mode_r == ChannelMode_from_bits(BitAnd(Shr(data, 6), 3))
        mode_extension_r == ModeExtension_from_bits(BitAnd(Shr(data, 4), 3))
        is_copywrighted == BitAnd(Shr(data, 3), 1) = 1
        is_original == BitAnd(Shr(data, 2), 1) = 1
    IN  IF sync_word_rejected(sync_word_bits) THEN Err("InvalidSyncWord")
        ELSE IF mpeg_version_r.kind = "Err" THEN mpeg_version_r
        ELSE IF layer_r.kind = "Err" THEN layer_r
        ELSE IF bitrate_from_index.kind = "Err" THEN bitrate_from_index
        ELSE IF sample_rate_r.kind = "Err" THEN sample_rate_r
        ELSE IF channel_mode_r.kind = "Err" THEN channel_mode_r
        ELSE IF mode_extension_r.kind = "Err" THEN mode_extension_r
        \* bitrate_from_index.unwrap()
        ELSE IF ~bitrate_from_index.val.some THEN Panic("unwrap on None")
        ELSE Ok([mpeg_version |-> mpeg_version,
                 layer |-> layer,
                 has_crc |-> has_crc,
                 bitrate |-> bitrate_from_index.val.v,
                 sample_rate |-> sample_rate,
                 has_padding |-> has_padding,
                 channel_mode |-> channel_mode_r.val,
                 mode_extension |-> mode_extension_r.val,
                 is_copywrighted |-> is_copywrighted,
                 is_original |-> is_original,
                 \* an f64 quotient, kept as numerator and denominator
                 duration_per_frame |->
                     <<get_samples_per_frame(layer), sample_rate>>])

----------------------------------------------------------------------------
(* src/audio/frame.rs                                                      *)

\* (samples_per_frame as u32) * ((bitrate as u32) / (sample_rate as u32)) + padding
frame_length_of(samples_per_frame, bitrate, sample_rate, padding) ==
    samples_per_frame * (bitrate \div sample_rate) + padding

\* MP3AudioFrame::from_bytes(&b[off..]): data = &bytes[4..] runs from
\* off + 4 to the end of the buffer.
MP3AudioFrame_from_bytes(b, off) ==
    IF b.len - off < 4 THEN Panic("range end index 4 out of range")
    ELSE LET header_r == MP3AudioFrameHeader_from_bytes(Bytes(b, off, 4))
             header == header_r.val
             padding == IF header.has_padding THEN 1 ELSE 0
             samples_per_frame == get_samples_per_frame(header.layer)
             frame_length == frame_length_of(samples_per_frame, header.bitrate,
                                             header.sample_rate, padding)
         IN  IF header_r.kind # "Ok" THEN header_r
             ELSE Ok([header |-> header,
                      frame_length |-> frame_length,
                      data |-> [start |-> off + 4, len |-> b.len - (off + 4)]])

----------------------------------------------------------------------------
(* src/audio/mod.rs                                                        *)

\* if current_index > 1000 { break; }
SafetyCap == 1000

\* The walk of a buffer whose frames have length zero never ends and its
\* Vec grows without bound: the model follows it for MaxFrames frames.
MaxFrames == 4

\* one iteration of the while loop of parse_audio_frames
WalkIter ==
    /\ wpc = "loop"
    /\ current_index < buf.len
    /\ Len(frames) < MaxFrames
    /\ LET frame_r == MP3AudioFrame_from_bytes(buf, current_index)
           frame == frame_r.val
           next_index == current_index + frame.frame_length
       IN  CASE frame_r.kind = "Err" ->
                  /\ wres' = frame_r
                  /\ wpc' = "done"
                  /\ UNCHANGED <<current_index, frames>>
             [] frame_r.kind = "Panic" ->
                  /\ wres' = frame_r
                  /\ wpc' = "panic"
                  /\ UNCHANGED <<current_index, frames>>
             [] OTHER ->
                  /\ current_index' = next_index
                  /\ frames' = Append(frames, frame)
                  /\ IF next_index > SafetyCap
                     THEN wpc' = "done" /\ wres' = Ok("frames")
                     ELSE UNCHANGED <<wpc, wres>>
    /\ UNCHANGED <<buf, hvars, tvars>>

\* the while condition fails: Ok(frames)
WalkReturn ==
    /\ wpc = "loop"
    /\ current_index >= buf.len
    /\ wpc' = "done"
    /\ wres' = Ok("frames")
    /\ UNCHANGED <<buf, current_index, frames, hvars, tvars>>

----------------------------------------------------------------------------
(* src/metadata/header.rs                                                  *)

ID3v2MetadataFrameID_from_bytes(bytes) ==
    CASE bytes = <<84, 73, 84, 50>> -> "Title"
      [] bytes = <<84, 80, 69, 49>> -> "Artist"
      [] bytes = <<84, 65, 76, 66>> -> "Album"
      [] bytes = <<84, 89, 69, 82>> -> "Year"
      [] bytes = <<67, 79, 77, 77>> -> "Comment"
      [] bytes = <<84, 82, 67, 75>> -> "TrackNumber"
      [] bytes = <<84, 67, 79, 78>> -> "Genre"
      [] bytes = <<84, 88, 88, 88>> -> "Txxx"
      [] OTHER -> "Custom"

\* ID3v2MetadataFrame::parse_size: a u32 kept as halves
ID3v2MetadataFrame_parse_size(bytes, ver) ==
    IF ver # 3 THEN Err("UnsupportedVersion")
    ELSE Ok(u32_from_be_bytes(bytes))

\* ID3v2MetadataFrame::from_bytes(&b[start..end], ver).  data_size + 10
\* past u32::MAX panics where overflow is checked and wraps below 10 where
\* it is not, and &bytes[10..size] then panics: a panic in both builds, as
\* for every size beyond the slice.
ID3v2MetadataFrame_from_bytes(b, start, end, ver) ==
    LET len == end - start
        data_size_r == ID3v2MetadataFrame_parse_size(Bytes(b, start + 4, 4), ver)
        data_size == U32Int(data_size_r.val)
    IN  IF len < 10 THEN Err("TruncatedFrameHeader")
        ELSE IF data_size_r.kind = "Err" THEN data_size_r
        ELSE IF ~U32Fits(data_size_r.val) \/ data_size > len - 10
             THEN Panic("range end index out of range")
        ELSE Ok([id |-> ID3v2MetadataFrameID_from_bytes(Bytes(b, start, 4)),
                 data_size |-> data_size,
                 size |-> data_size + 10,
                 flags |-> u16_from_be_bytes(Bytes(b, start + 8, 2)),
                 data |-> [start |-> start + 10, len |-> data_size]])

has_flag(b) == b.len >= 10 /\ Bytes(b, 0, 3) = <<73, 68, 51>>

has_extended_header(f) == BitAnd(f, 64) = 64

\* ID3v2Header::parse_size
ID3v2Header_parse_size(b) ==
    BitOr(BitOr(BitOr(Shl(ByteAt(b, 6), 21), Shl(ByteAt(b, 7), 14)),
                Shl(ByteAt(b, 8), 7)),
          ByteAt(b, 9))

\* ID3v2Header::from_bytes up to its call of build_metadata_frames on
\* &bytes[10..size]
TagHeader ==
    /\ tpc = "call"
    /\ IF ~has_flag(tbuf)
       THEN /\ tres' = Err("MissingTagMarker")
            /\ tpc' = "done"
            /\ UNCHANGED <<metadata_size, size, version, flags>>
       ELSE /\ metadata_size' = ID3v2Header_parse_size(tbuf)
            /\ size' = metadata_size' + 10
            /\ version' = ByteAt(tbuf, 3)
            /\ flags' = ByteAt(tbuf, 5)
            /\ IF size' > tbuf.len
               THEN tpc' = "panic" /\ tres' = Panic("range end index out of range")
               ELSE tpc' = "frames" /\ UNCHANGED tres
    /\ UNCHANGED <<tbuf, t_index, metadata_frames, hvars, wvars>>

\* one iteration of the while loop of build_metadata_frames
TagFrame ==
    /\ tpc = "frames"
    /\ t_index < size - 10
    /\ LET frame_r == ID3v2MetadataFrame_from_bytes(tbuf, 10 + t_index, size, version)
       IN  CASE frame_r.kind = "Err" ->
                  /\ tres' = frame_r
                  /\ tpc' = "done"
                  /\ UNCHANGED <<t_index, metadata_frames>>
             [] frame_r.kind = "Panic" ->
                  /\ tres' = frame_r
                  /\ tpc' = "panic"
                  /\ UNCHANGED <<t_index, metadata_frames>>
             [] OTHER ->
                  /\ t_index' = t_index + frame_r.val.size
                  /\ metadata_frames' = Append(metadata_frames, frame_r.val)
                  /\ UNCHANGED <<tpc, tres>>
    /\ UNCHANGED <<tbuf, metadata_size, size, version, flags, hvars, wvars>>

\* build_metadata_frames returns Ok(frames) and from_bytes the header
TagReturn ==
    /\ tpc = "frames"
    /\ t_index >= size - 10
    /\ tres' = Ok([version |-> version,
                   flags |-> flags,
                   metadata_size |-> metadata_size,
                   size |-> size,
                   metadata_frames |-> metadata_frames])
    /\ tpc' = "done"
    /\ UNCHANGED <<tbuf, metadata_size, size, version, flags, t_index,
                   metadata_frames, hvars, wvars>>

----------------------------------------------------------------------------
(* The call of MP3AudioFrameHeader::from_bytes                             *)

HeaderCall ==
    /\ hpc = "call"
    /\ hres' = MP3AudioFrameHeader_from_bytes(hbytes)
    /\ hpc' = "done"
    /\ UNCHANGED <<hbytes, wvars, tvars>>

----------------------------------------------------------------------------
(* Inputs                                                                  *)

\* byte 3 of a header: channel mode, mode extension, copyright, original,
\* emphasis
HeaderByte3 == {0, 27, 68, 100, 136, 164, 204, 255}

\* headers with a bit of the sync word cleared in byte 0 or in byte 1, with
\* valid and invalid version and layer bits behind it
BadSyncInputs ==
    {<<b0, b1, b2, b3>> : b0 \in {0, 127, 254, 255}, b1 \in {0, 31, 219, 235, 251},
                          b2 \in {0, 144, 255}, b3 \in {0, 68}}

HeaderInputs ==
    {<<255, b1, b2, b3>> : b1 \in 224..255, b2 \in 0..255, b3 \in HeaderByte3}
    \cup BadSyncInputs

WalkIdle ==
    /\ buf = EmptyBuffer
    /\ current_index = 0
    /\ frames = <<>>
    /\ wpc = "idle"
    /\ wres = Pending

HeaderIdle ==
    /\ hbytes = <<0, 0, 0, 0>>
    /\ hpc = "idle"
    /\ hres = Pending

TagIdle ==
    /\ tbuf = EmptyBuffer
    /\ tpc = "idle"
    /\ metadata_size = 0
    /\ size = 0
    /\ version = 0
    /\ flags = 0
    /\ t_index = 0
    /\ metadata_frames = <<>>
    /\ tres = Pending

\* four-byte headers met by the walk, by what the program makes of them:
\*   <<255,250,144,100>>, <<255,251,144,68>>   V1 Layer3 128k 44100: 2304
\*   <<255,255,24,0>>, <<255,255,26,0>>         V1 Layer1 32k 32000: 384, 385
\*   <<255,255,40,0>>                           V1 Layer1 64k 32000: 768
\*   <<255,251,24,0>>                           V1 Layer3 32k 32000: 1152
\*   <<255,251,16,0>>, <<255,251,18,0>>         V1 Layer3 32k 44100: 0, 1
\*   <<255,243,20,0>>                           V2 Layer3 8k 24000: 0
\*   <<255,251,0,0>>, <<255,251,240,0>>         free and invalid bitrate index
\*   <<0,0,0,0>>, <<255,235,144,0>>, <<255,249,144,0>>, <<255,251,156,0>>
\*                                              bad sync, version, layer, rate
WalkHeaders ==
    {<<255, 250, 144, 100>>, <<255, 251, 144, 68>>, <<255, 255, 24, 0>>,
     <<255, 255, 26, 0>>, <<255, 255, 40, 0>>, <<255, 251, 24, 0>>,
     <<255, 251, 16, 0>>, <<255, 251, 18, 0>>, <<255, 243, 20, 0>>,
     <<255, 251, 0, 0>>, <<255, 251, 240, 0>>, <<0, 0, 0, 0>>,
     <<255, 235, 144, 0>>, <<255, 249, 144, 0>>, <<255, 251, 156, 0>>}

\* the headers that follow the first one
WalkHeadersNext ==
    {<<255, 255, 24, 0>>, <<255, 251, 16, 0>>, <<255, 251, 0, 0>>, <<0, 0, 0, 0>>}

\* where the second header lies; the third lies 384 bytes after it
WalkOffsets == {384, 385}

WalkLens == {0, 2, 4, 8, 384, 388, 768, 772, 1156}

\* a buffer of len bytes: h1 at 0, h2 at o2 and at o2 + 384, zero elsewhere
MkBuf(len, h1, o2, h2) ==
    LET byte(i) == IF i < 4 THEN h1[i + 1]
                   ELSE IF i - o2 \in 0..3 THEN h2[i - o2 + 1]
                   ELSE h2[i - (o2 + 384) + 1]
        places == (0..3) \cup (o2..(o2 + 3)) \cup ((o2 + 384)..(o2 + 387))
    IN  [len |-> len,
         at |-> [i \in {j \in places : j < len /\ byte(j) # 0} |-> byte(i)]]

WalkBuffers ==
    {MkBuf(len, h1, o2, h2) :
        len \in WalkLens, h1 \in WalkHeaders, o2 \in WalkOffsets,
        h2 \in WalkHeadersNext}

InitHeader ==
    /\ hbytes \in HeaderInputs
    /\ hpc = "call"
    /\ hres = Pending
    /\ WalkIdle
    /\ TagIdle

NextHeader == HeaderCall

SpecHeader == InitHeader /\ [][NextHeader]_vars

InitWalk ==
    /\ buf \in WalkBuffers
    /\ current_index = 0
    /\ frames = <<>>
    /\ wpc = "loop"
    /\ wres = Pending
    /\ HeaderIdle
    /\ TagIdle

NextWalk == WalkIter \/ WalkReturn

SpecWalk == InitWalk /\ [][NextWalk]_vars

\* n zero bytes
Zeros(n) == [i \in 1..n |-> 0]

\* a sub-frame: identifier, the four size bytes, flags 0, n payload bytes
SubFrame(id, sz, n) == id \o sz \o <<0, 0>> \o Zeros(n)

\* tag bodies: none; five stray bytes; TIT2 with 5 bytes; TIT2 with 5 bytes
\* then TPE1 with none; a frame "ABCD" with 119 bytes; a frame that
\* declares 100 bytes and holds 5; a frame that declares 0xFFFFFFFF bytes
TagBodies ==
    {<<>>,
     <<1, 2, 3, 4, 5>>,
     SubFrame(<<84, 73, 84, 50>>, <<0, 0, 0, 5>>, 5),
     SubFrame(<<84, 73, 84, 50>>, <<0, 0, 0, 5>>, 5)
        \o SubFrame(<<84, 80, 69, 49>>, <<0, 0, 0, 0>>, 0),
     SubFrame(<<65, 66, 67, 68>>, <<0, 0, 0, 119>>, 119),
     SubFrame(<<84, 65, 76, 66>>, <<0, 0, 0, 100>>, 5),
     SubFrame(<<84, 67, 79, 78>>, <<255, 255, 255, 255>>, 5)}

\* bytes 3 and 5 to 9 of the tag header
TagVersions == {2, 3, 4}
TagFlags == {0, 64}
TagSize6 == {0, 1, 128}
TagSize7 == {0, 1, 128}
TagSize8 == {0, 1, 128, 255}
TagSize9 == {0, 5, 15, 25, 127, 129, 255}

\* what follows the tag in the buffer: nothing, or the first audio header
TagTrailers == {<<>>, <<255, 251, 144, 68>>}

TagBuffers ==
    {FromSeq(<<73, 68, 51, v, 0, f, b6, b7, b8, b9>> \o body \o trailer) :
        v \in TagVersions, f \in TagFlags, b6 \in TagSize6, b7 \in TagSize7,
        b8 \in TagSize8, b9 \in TagSize9, body \in TagBodies,
        trailer \in TagTrailers}

\* buffers with no tag: too short, or without the marker
UntaggedBuffers ==
    {FromSeq(<<>>), FromSeq(<<73, 68, 51>>), FromSeq(<<73, 68, 51, 3, 0, 0, 0, 0, 0>>),
     FromSeq(<<73, 68, 50, 3, 0, 0, 0, 0, 0, 0>>),
     FromSeq(<<255, 251, 144, 68, 0, 0, 0, 0, 0, 0, 0, 0>>)}

InitTag ==
    /\ tbuf \in TagBuffers \cup UntaggedBuffers
    /\ tpc = "call"
    /\ metadata_size = 0
    /\ size = 0
    /\ version = 0
    /\ flags = 0
    /\ t_index = 0
    /\ metadata_frames = <<>>
    /\ tres = Pending
    /\ HeaderIdle
    /\ WalkIdle

NextTag == TagHeader \/ TagFrame \/ TagReturn

SpecTag == InitTag /\ [][NextTag]_vars

----------------------------------------------------------------------------
(* The fields of a 4-byte header, read off its bytes one byte at a time.   *)

SyncBitsSet(b) == b[1] = 255 /\ b[2] \div 32 = 7
VersionBits(b) == (b[2] \div 8) % 4
LayerBits(b) == (b[2] \div 2) % 4
ProtectionBit(b) == b[2] % 2
BitrateIndex(b) == b[3] \div 16
SampleRateIndex(b) == (b[3] \div 4) % 4
PaddingBit(b) == (b[3] \div 2) % 2
ChannelBits(b) == b[4] \div 64
CopyrightBit(b) == (b[4] \div 8) % 2
OriginalBit(b) == (b[4] \div 4) % 2

VersionOfBits(v) == CASE v = 0 -> "Mpeg2_5" [] v = 2 -> "Mpeg2" [] v = 3 -> "Mpeg1"
LayerOfBits(l) == CASE l = 1 -> "Layer3" [] l = 2 -> "Layer2" [] l = 3 -> "Layer1"
ChannelOfBits(c) ==
    CASE c = 0 -> "Stereo" [] c = 1 -> "JointStereo" [] c = 2 -> "DualChannel"
      [] c = 3 -> "SingleChannel"

\* sync, version, layer and sample-rate index are valid
FieldsValid(b) ==
    /\ SyncBitsSet(b)
    /\ VersionBits(b) # 1
    /\ LayerBits(b) # 0
    /\ SampleRateIndex(b) \in 0..2

----------------------------------------------------------------------------
(* Claims on MP3AudioFrameHeader::from_bytes (SpecHeader)                  *)

C9_SyncWordCheck ==
    hpc = "done" =>
        ((hres.kind = "Err" /\ hres.val = "InvalidSyncWord") <=> ~SyncBitsSet(hbytes))

C9_Witness ==
    /\ hpc = "done"
    /\ hbytes = <<0, 0, 0, 0>>
    /\ hres.kind = "Err"
    /\ hres.val = "InvalidSyncWord"

\* C11: for every version and layer the bitrate get_bitrate resolves is
\* strictly increasing in the bitrate index over 1..14 and is a positive
\* multiple of 1000: the bitrate of a decoded header lies above the one of
\* every smaller index and below the one of every larger index.
C11_BitrateIncreasing ==
    (hpc = "done" /\ hres.kind = "Ok") =>
        LET h == hres.val
            i == BitrateIndex(hbytes)
        IN  /\ h.bitrate > 0
            /\ h.bitrate % 1000 = 0
            /\ \A j \in 1..14 :
                  LET other == get_bitrate(h.mpeg_version, h.layer, j).val.v
                  IN  /\ j < i => other < h.bitrate
                      /\ j > i => other > h.bitrate

----------------------------------------------------------------------------
(* Claims on MP3AudioFrame::from_bytes and parse_audio_frames (SpecWalk)   *)

\* the frame length as a product formed before the division
frame_length_product_first(samples_per_frame, bitrate, sample_rate, padding) ==
    (samples_per_frame * bitrate) \div sample_rate + padding

\* the offset at which frame i of the walk starts: the lengths before it
RECURSIVE FrameOffset(_, _)
FrameOffset(fs, i) ==
    IF i = 1 THEN 0 ELSE FrameOffset(fs, i - 1) + fs[i - 1].frame_length

\* C2: every frame's frame_length is floor(samples_per_frame * bitrate /
\* sample_rate) + padding, the product formed before the division.
C2_FrameLengthProductFirst ==
    \A i \in 1..Len(frames) :
        LET h == frames[i].header
        IN  frames[i].frame_length =
                frame_length_product_first(
                    get_samples_per_frame(h.layer), h.bitrate, h.sample_rate,
                    IF h.has_padding THEN 1 ELSE 0)

\* C3: the walk never iterates again without advancing the offset: a frame
\* of length zero ends it with an error.
C3_WalkAdvances ==
    [][(wpc = "loop" /\ wpc' = "loop") => current_index' > current_index]_vars

\* C4: the running offset never exceeds the length of the buffer.
C4_OffsetWithinBuffer == current_index <= buf.len

\* C5: a buffer whose first header has valid sync, version, layer and
\* sample-rate index and a bitrate index of 0000 or 1111 makes
\* parse_audio_frames return the MissingBitrate error, with no frames.
C5_FreeBitrateIsError ==
    (/\ wpc \in {"done", "panic"}
     /\ buf.len >= 4
     /\ FieldsValid(Bytes(buf, 0, 4))
     /\ BitrateIndex(Bytes(buf, 0, 4)) \in {0, 15}) =>
        (wres.kind = "Err" /\ wres.val = "MissingBitrate")

\* C10: the payload of the frame that starts at offset o is the bytes from
\* o + 4 up to o + frame_length, frame_length - 4 of them.  Stated of the
\* frames that hold their header and end inside the buffer, where such a
\* view exists.
C10_PayloadIsFrameBody ==
    \A i \in 1..Len(frames) :
        (/\ frames[i].frame_length >= 4
         /\ FrameOffset(frames, i) + frames[i].frame_length <= buf.len) =>
            /\ frames[i].data.start = FrameOffset(frames, i) + 4
            /\ frames[i].data.len = frames[i].frame_length - 4

----------------------------------------------------------------------------
(* Claims on ID3v2Header::from_bytes (SpecTag)                             *)

\* the 28-bit synchsafe integer of bytes 6 to 9: the low 7 bits of each
Synchsafe(b) ==
    (ByteAt(b, 6) % 128) * Pow2(21) + (ByteAt(b, 7) % 128) * Pow2(14)
    + (ByteAt(b, 8) % 128) * Pow2(7) + (ByteAt(b, 9) % 128)

StartsWithMarker(b) == b.len >= 3 /\ Bytes(b, 0, 3) = <<73, 68, 51>>

\* C6: a buffer that starts with the marker and declares a total size
\* (synchsafe size + 10) beyond its length makes from_bytes return an error.
C6_OversizedTagIsError ==
    (/\ tpc \in {"done", "panic"}
     /\ StartsWithMarker(tbuf)
     /\ tbuf.len >= 10
     /\ Synchsafe(tbuf) + 10 > tbuf.len) =>
        tres.kind = "Err"

\* C7: the header's metadata_size is the synchsafe integer of bytes 6 to 9,
\* each byte giving its low 7 bits only, so it is below 2^28, and size is
\* metadata_size + 10.
C7_SizeIsSynchsafe ==
    (tpc = "done" /\ tres.kind = "Ok") =>
        /\ tres.val.metadata_size = Synchsafe(tbuf)
        /\ tres.val.metadata_size < Pow2(28)
        /\ tres.val.size = tres.val.metadata_size + 10

\* C8: a buffer that starts with the marker and whose version byte is not 3
\* makes from_bytes fail with the unsupported-version error of the sub-frame
\* size parsing, whatever the metadata size, a body of zero bytes included.
\* Stated of the tags that lie inside the buffer.
C8_OtherVersionsFail ==
    (/\ tpc \in {"done", "panic"}
     /\ StartsWithMarker(tbuf)
     /\ tbuf.len >= 10
     /\ size <= tbuf.len
     /\ ByteAt(tbuf, 3) # 3) =>
        (tres.kind = "Err" /\ tres.val = "UnsupportedVersion")

====
